---- MODULE Spec2Model ----
(***************************************************************************)
(* Model of pocketmagstopdf.py, the '--quality=original' flow of main():   *)
(* argument validation, the last-page discovery loop, range capping, the   *)
(* bulk render request, the anchor search in the downloaded PDF, the       *)
(* in-place edits (timestamps, opacity objects, flate streams) and the     *)
(* final write of the file.                                                *)
(*                                                                         *)
(* Bytes are integers 0..255; a buffer is a sequence of bytes and a byte   *)
(* offset o of the program is position o + 1 of the sequence.              *)
(***************************************************************************)
EXTENDS Integers, Sequences, FiniteSets, TLC

VARIABLES
    \* the remote host and the command line (fixed during a run)
    exists,              \* page indices for which the extralow JPEG exists
    error_pages,         \* page indices answered with another status
    render_status,       \* status code of the PrintPage response
    render_content,      \* body of the PrintPage response
    args_ok,             \* URL, quality, UUIDs, delay, save-images all pass
    opt_range_to,        \* --range-to as given by the user
    user_uuid_hide, user_uuid_destroy, timestamp_change,
    \* main()'s locals
    pc,
    range_from, range_to,
    page_num, page_jump, last_good_page, last_bad_page, bad_page_count,
    probes,              \* number of requests.get calls made
    post_log,            \* the pages[..] fields of every requests.post made
    pdf_download,
    start_of_magazine_content_location,
    itextsharp_object_location, itextsharp_object_end_location,
    itextsharp_object_creationdate_property_location,
    itextsharp_object_moddate_property_location,
    uuid_opacity_object_location_list,
    uuid_placement_object_location_list, uuid_text_object_location_list,
    stream_index,        \* position of the loop of line 654
    number_of_pages,     \* line 453
    count_warnings,      \* the count warnings printed (lines 567-585, 633-646)
    file_written, pdf_original   \* the output file

envVars == <<exists, error_pages, render_status, render_content, args_ok,
             opt_range_to, user_uuid_hide, user_uuid_destroy, timestamp_change>>
discVars == <<page_num, page_jump, last_good_page, last_bad_page, bad_page_count>>
locVars == <<start_of_magazine_content_location,
             itextsharp_object_location, itextsharp_object_end_location,
             itextsharp_object_creationdate_property_location,
             itextsharp_object_moddate_property_location>>
listVars == <<uuid_opacity_object_location_list,
              uuid_placement_object_location_list, uuid_text_object_location_list,
              stream_index>>
fileVars == <<file_written, pdf_original>>
checkVars == <<number_of_pages, count_warnings>>
vars == <<envVars, pc, range_from, range_to, discVars, probes, post_log,
          pdf_download, locVars, listVars, fileVars, checkVars>>

----------------------------------------------------------------------------
(* Bounds *)

MaxPages == 45       \* contiguous magazines have 0..MaxPages pages
MaxSparse == 3       \* arbitrary page sets are subsets of 0..MaxSparse
MaxProbes == 70      \* cap on the number of probes of one run

----------------------------------------------------------------------------
(* Program constants *)

InitialPageJump == 20
DefaultRangeTo == 999
NoPage == -2         \* stands for last_bad_page = None

Min2(a, b) == IF a < b THEN a ELSE b
Max2(a, b) == IF a > b THEN a ELSE b

----------------------------------------------------------------------------
(* Page-existence probe: requests.get(...).status_code *)

StatusOf(p) ==
    IF p \in error_pages THEN 500
    ELSE IF p \in exists THEN 200
    ELSE 404

\* The three branches of the if/elif/else on the status code.
ClassifyTolerant(status) ==
    IF status = 200 THEN "Exists" ELSE "Missing"

Classify(status) ==
    IF status = 200 THEN "Exists"
    ELSE IF status = 404 THEN "Missing"
    ELSE "UnexpectedStatus"

\* last_good_page + 1 == last_bad_page
BoundaryPinnedNever(good, bad) == FALSE

BoundaryPinned(good, bad) == bad # NoPage /\ good + 1 = bad

\* page_jump = page_jump // 2 ; if page_jump < 1: page_jump = 1
HalveJumpNoFloor(jump) == jump \div 2

HalveJump(jump) == IF jump \div 2 < 1 THEN 1 ELSE jump \div 2

\* page_num -= page_jump ; if page_num < 0: page_num = 0
StepBackUnclamped(p, jump) == p - jump

StepBack(p, jump) == IF p - jump < 0 THEN 0 ELSE p - jump

\* bad_page_count == bad_page_limit
ExhaustedLate(count, limit) == count = limit + 1

ExhaustedNever(count, limit) == FALSE

Exhausted(count, limit) == count = limit

\* if last_good_page < range_to: range_to = last_good_page
CapRangeAlways(last_good_one_based, to) == last_good_one_based

CapRange(last_good_one_based, to) ==
    IF last_good_one_based < to THEN last_good_one_based ELSE to

\* for page_num in range(range_from - 1, range_to):
\*     post_request_data["pages[{}]".format(index_number)] = page_num
RECURSIVE AddPages(_, _, _, _)
AddPages(data, index_number, p, stop) ==
    IF p >= stop THEN data
    ELSE AddPages(data @@ (index_number :> p), index_number + 1, p + 1, stop)

PagesFieldsFromOne(from, to) == AddPages(<<>>, 0, from, to)

PagesFields(from, to) == AddPages(<<>>, 0, from - 1, to)

\* if pdf_response.status_code == 200
RenderAcceptedAny(status) == TRUE

RenderAccepted(status) == status = 200

----------------------------------------------------------------------------
(* Python's bytearray operations *)

\* A slice index as Python normalises it: negative counts from the end,
\* then clamped to 0..len.
NormIndex(i, n) ==
    IF i < 0 THEN Max2(i + n, 0) ELSE Min2(i, n)

SetMin(S) == CHOOSE x \in S : \A y \in S : x <= y

\* buf.find(sub, start, end): the lowest offset o with start <= o and
\* o + len(sub) <= end at which sub occurs, or -1.
Find(buf, sub, start, end) ==
    LET n == Len(buf)
        lo == NormIndex(start, n)
        hi == NormIndex(end, n)
        hits == { o \in lo .. (hi - Len(sub)) :
                    \A k \in 1 .. Len(sub) : buf[o + k] = sub[k] }
    IN  IF hits = {} THEN -1 ELSE SetMin(hits)

\* buf.find(sub, start)
FindFrom(buf, sub, start) == Find(buf, sub, start, Len(buf))

\* buf[a:b]
Slice(buf, a, b) ==
    LET n == Len(buf)
        lo == NormIndex(a, n)
        hi == NormIndex(b, n)
    IN  SubSeq(buf, lo + 1, hi)

\* buf[a:b] = repl
SliceAssign(buf, a, b, repl) ==
    LET n == Len(buf)
        lo == NormIndex(a, n)
        hi == Max2(NormIndex(b, n), lo)
    IN  SubSeq(buf, 1, lo) \o repl \o SubSeq(buf, hi + 1, n)

\* bytes.decode(encoding='cp1252') fails on the five bytes cp1252 leaves
\* undefined.
Cp1252Undefined == {129, 141, 143, 144, 157}

Decodable(bytes) == \A k \in 1 .. Len(bytes) : bytes[k] \notin Cp1252Undefined

IsDigit(b) == b >= 48 /\ b <= 57

AllDigits(bytes) == \A k \in 1 .. Len(bytes) : IsDigit(bytes[k])

\* int(text) for a text of decimal digits (the documents of this model hold
\* no sign, blank or underscore next to a length); any other text raises
\* ValueError.
IntParses(bytes) == Len(bytes) > 0 /\ AllDigits(bytes)

RECURSIVE IntOf(_)
IntOf(bytes) ==
    IF Len(bytes) = 0 THEN 0
    ELSE 10 * IntOf(SubSeq(bytes, 1, Len(bytes) - 1)) + (bytes[Len(bytes)] - 48)

\* '0'.encode(encoding='cp1252') * n
ZerosOneShort(n) == [k \in 1 .. (n - 1) |-> 48]

RECURSIVE Zeros(_)
Zeros(n) == IF n <= 0 THEN <<>> ELSE <<48>> \o Zeros(n - 1)

\* The decimal digits of v, zero-padded to width, as strftime's %Y, %m, %d,
\* %H, %M, %S print them.
RECURSIVE Padded(_, _)
Padded(v, width) ==
    IF width = 0 THEN <<>>
    ELSE Padded(v \div 10, width - 1) \o <<48 + (v % 10)>>

\* datetime.now().strftime('%Y%m%d%H%M%S').encode(encoding='cp1252')
StrfTime(t) ==
    Padded(t.year, 4) \o Padded(t.month, 2) \o Padded(t.day, 2)
        \o Padded(t.hour, 2) \o Padded(t.minute, 2) \o Padded(t.second, 2)

\* The values datetime.now() takes during a run.
Clock ==
    { [year |-> 2026, month |-> 11, day |-> 1, hour |-> 9, minute |-> 5, second |-> s] :
        s \in {7, 8} }

----------------------------------------------------------------------------
(* Anchor literals of the program *)

\* MediaBoxMarker = b'<</Type/Page/MediaBox' (21 bytes)
MediaBoxMarker ==
  <<60, 60, 47, 84, 121, 112, 101, 47, 80, 97, 103, 101, 47, 77, 101, 100, 105, 97, 66, 111, 120>>
\* ProducerMarker = b'<</Producer(iTextSharp' (22 bytes)
ProducerMarker ==
  <<60, 60, 47, 80, 114, 111, 100, 117, 99, 101, 114, 40, 105, 84, 101, 120, 116, 83, 104, 97, 114, 112>>
\* EndObjMarker = b'endobj' (6 bytes)
EndObjMarker ==
  <<101, 110, 100, 111, 98, 106>>
\* CreationDateTag = b'CreationDate' (12 bytes)
CreationDateTag ==
  <<67, 114, 101, 97, 116, 105, 111, 110, 68, 97, 116, 101>>
\* ModDateTag = b'ModDate' (7 bytes)
ModDateTag ==
  <<77, 111, 100, 68, 97, 116, 101>>
\* uuid_opacity_object_original_value = b'<</ca 0.35/CA 0.3>>' (19 bytes)
uuid_opacity_object_original_value ==
  <<60, 60, 47, 99, 97, 32, 48, 46, 51, 53, 47, 67, 65, 32, 48, 46, 51, 62, 62>>
\* uuid_opacity_object_hide_value = b'<</ca 0.00/CA 0.0>>' (19 bytes)
uuid_opacity_object_hide_value ==
  <<60, 60, 47, 99, 97, 32, 48, 46, 48, 48, 47, 67, 65, 32, 48, 46, 48, 62, 62>>
\* uuid_opacity_object_destroy_value = b'0000000000000000000' (19 bytes)
uuid_opacity_object_destroy_value ==
  <<48, 48, 48, 48, 48, 48, 48, 48, 48, 48, 48, 48, 48, 48, 48, 48, 48, 48, 48>>
\* LengthMarker = b'<</Length' (9 bytes)
LengthMarker ==
  <<60, 60, 47, 76, 101, 110, 103, 116, 104>>
\* FilterMarker = b'/Filter/FlateDecode' (19 bytes)
FilterMarker ==
  <<47, 70, 105, 108, 116, 101, 114, 47, 70, 108, 97, 116, 101, 68, 101, 99, 111, 100, 101>>
\* StreamMarker = b'>>stream\n' (9 bytes)
StreamMarker ==
  <<62, 62, 115, 116, 114, 101, 97, 109, 10>>

CreationDateOffset == 15
ModDateOffset == 10
timestamp_length == 14

\* zlib.decompress(data, wbits=0) succeeds when data starts with a complete
\* zlib stream and raises zlib.error otherwise.  The complete streams of
\* this model: zlib.compress(b'').
\* b'x\x9c\x03\x00\x00\x00\x00\x01' (8 bytes)
EmptyDeflate ==
    <<120, 156, 3, 0, 0, 0, 0, 1>>

CompleteStreams == {EmptyDeflate}

Decompresses(data) ==
    \E z \in CompleteStreams :
        Len(data) >= Len(z) /\ SubSeq(data, 1, Len(z)) = z

----------------------------------------------------------------------------
(* Render responses: documents assembled from the pieces the remote        *)
(* renderer emits.                                                         *)

\* b'%PDF-1.4\n' (9 bytes)
Hdr ==
    <<37, 80, 68, 70, 45, 49, 46, 52, 10>>

\* b'%PDF-1.4\n%\xe2\xe3\xcf\xd3\n' (15 bytes)
HdrBinary ==
    <<37, 80, 68, 70, 45, 49, 46, 52, 10, 37, 226, 227, 207, 211, 10>>

\* b'%PDF-1.4\n%\x81\x8d\x8f\x90\n' (15 bytes)
HdrUndecodable ==
    <<37, 80, 68, 70, 45, 49, 46, 52, 10, 37, 129, 141, 143, 144, 10>>

\* b'<</Producer(iTextSharp)' (23 bytes)
ProducerOpen ==
    <<60, 60, 47, 80, 114, 111, 100, 117, 99, 101, 114, 40, 105, 84, 101, 120, 116, 83, 104, 97, 114, 112, 41>>

\* b'/CreationDate(D:20220708120000)' (31 bytes)
CreationProp ==
    <<47, 67, 114, 101, 97, 116, 105, 111, 110, 68, 97, 116, 101, 40, 68, 58, 50, 48, 50, 50, 48, 55, 48, 56, 49, 50, 48, 48, 48, 48, 41>>

\* b'/ModDate(D:20220708130000)' (26 bytes)
ModProp ==
    <<47, 77, 111, 100, 68, 97, 116, 101, 40, 68, 58, 50, 48, 50, 50, 48, 55, 48, 56, 49, 51, 48, 48, 48, 48, 41>>

\* b'>>endobj\n' (9 bytes)
ObjEnd ==
    <<62, 62, 101, 110, 100, 111, 98, 106, 10>>

\* b'<</Length 8/Filter/FlateDecode>>stream\n' (39 bytes)
StreamHead ==
    <<60, 60, 47, 76, 101, 110, 103, 116, 104, 32, 56, 47, 70, 105, 108, 116, 101, 114, 47, 70, 108, 97, 116, 101, 68, 101, 99, 111, 100, 101, 62, 62, 115, 116, 114, 101, 97, 109, 10>>

\* b'<</Length 8>>stream\n' (20 bytes)
StreamHeadNoFilter ==
    <<60, 60, 47, 76, 101, 110, 103, 116, 104, 32, 56, 62, 62, 115, 116, 114, 101, 97, 109, 10>>

\* b'AAAAAAAA' (8 bytes)
NotDeflate ==
    <<65, 65, 65, 65, 65, 65, 65, 65>>

\* b'<</Type/Page/MediaBox[0 0 1 1]>>' (32 bytes)
PageObj ==
    <<60, 60, 47, 84, 121, 112, 101, 47, 80, 97, 103, 101, 47, 77, 101, 100, 105, 97, 66, 111, 120, 91, 48, 32, 48, 32, 49, 32, 49, 93, 62, 62>>

Newline == <<10>>

\* b'/ModDate(D:2022' (15 bytes): a ModDate property cut off inside its value.
ModPropCutOff ==
    <<47, 77, 111, 100, 68, 97, 116, 101, 40, 68, 58, 50, 48, 50, 50>>

\* A flate stream object whose payload is a complete zlib stream.
StreamObj == StreamHead \o EmptyDeflate \o Newline

\* One whose payload is not a zlib stream, and one without a /Filter entry.
StreamObjCorrupt == StreamHead \o NotDeflate \o Newline
StreamObjNoFilter == StreamHeadNoFilter \o EmptyDeflate \o Newline

Opacity == uuid_opacity_object_original_value

Prologues == { Hdr, HdrBinary }

ProducerObjects ==
    { <<>>,
      ProducerOpen \o CreationProp \o ModProp \o ObjEnd,
      ProducerOpen \o ModProp \o ObjEnd,
      ProducerOpen \o CreationProp \o ObjEnd,
      ProducerOpen \o ObjEnd \o CreationProp \o ModProp,
      CreationProp \o ModProp,
      ProducerOpen \o CreationDateTag \o ModDateTag,
      ProducerOpen \o CreationProp \o ModPropCutOff }

Watermarks ==
    { <<>>,
      Opacity,
      Opacity \o Opacity,
      Opacity \o StreamObj \o StreamObj,
      Opacity \o StreamObj \o StreamObj \o Opacity \o StreamObj \o StreamObj,
      StreamObj,
      StreamObjCorrupt,
      StreamObjNoFilter }

Contents ==
    { <<>>,
      PageObj,
      PageObj \o Opacity \o CreationProp }

\* Every combination, and two documents with an undecodable header.
Documents ==
    { a \o b \o c \o d :
        a \in Prologues, b \in ProducerObjects, c \in Watermarks, d \in Contents }
    \cup { HdrUndecodable,
           HdrUndecodable \o ProducerOpen \o CreationProp \o ModProp \o ObjEnd \o PageObj }

----------------------------------------------------------------------------
(* Initial states *)

\* main() up to line 199: options read, nothing else done.
InitLocals ==
    /\ pc = "validate"
    /\ range_to = opt_range_to
    /\ page_num = 0 /\ page_jump = 0 /\ last_good_page = 0
    /\ last_bad_page = NoPage /\ bad_page_count = 0
    /\ probes = 0
    /\ post_log = <<>>
    /\ pdf_download = <<>>
    /\ start_of_magazine_content_location = 0
    /\ itextsharp_object_location = 0
    /\ itextsharp_object_end_location = 0
    /\ itextsharp_object_creationdate_property_location = 0
    /\ itextsharp_object_moddate_property_location = 0
    /\ uuid_opacity_object_location_list = <<>>
    /\ uuid_placement_object_location_list = <<>>
    /\ uuid_text_object_location_list = <<>>
    /\ stream_index = 0
    /\ number_of_pages = 0
    /\ count_warnings = {}
    /\ file_written = FALSE
    /\ pdf_original = <<>>

\* The --range-to values tried with a --range-from of from: one below it
\* (invalid), equal, a little above, and the default.
RangeToChoice(from, k) ==
    CASE k = 0 -> from - 1
      [] k = 1 -> from
      [] k = 2 -> from + 3
      [] OTHER -> DefaultRangeTo

\* Magazines whose pages 0..N-1 exist, probed from every start.
ContiguousHosts ==
    { [ex |-> 0 .. (n - 1), err |-> {}, from |-> f, to |-> RangeToChoice(f, k),
       ok |-> TRUE] :
        n \in 0 .. MaxPages, f \in 1 .. (MaxPages + 1), k \in 1 .. 3 }

\* Arbitrary page sets, some pages answering with an unexpected status,
\* valid and invalid ranges and arguments.
SparseHosts ==
    { [ex |-> s, err |-> e, from |-> f, to |-> RangeToChoice(f, k), ok |-> TRUE] :
        s \in SUBSET (0 .. MaxSparse),
        e \in {{}, {0}, {MaxSparse}},
        f \in 0 .. (MaxSparse + 1),
        k \in 0 .. 3 }
    \cup { [ex |-> 0 .. 2, err |-> {}, from |-> 1, to |-> 2, ok |-> FALSE] }

\* Page sets with gaps as wide as the jumps of the search: the pages that
\* exist are among those a search from index 0, 10, 20 or 30 lands on.
ScatteredHosts ==
    { [ex |-> s, err |-> {}, from |-> f, to |-> DefaultRangeTo, ok |-> TRUE] :
        s \in SUBSET {0, 10, 15, 18, 20, 40},
        f \in {1, 11, 21, 31} }

\* A handful of hosts for the runs that vary the document instead.
FewHosts ==
    { [ex |-> 0 .. (n - 1), err |-> e, from |-> f, to |-> t, ok |-> k] :
        n \in {0, 3}, e \in {{}, {0}}, f \in {0, 1}, t \in {2, DefaultRangeTo},
        k \in BOOLEAN }

\* The hosts of the termination check: every page set over 0..MaxSparse from
\* every start, and every contiguous magazine from its first page.
TerminationHosts ==
    { [ex |-> s, err |-> {}, from |-> f, to |-> DefaultRangeTo, ok |-> TRUE] :
        s \in SUBSET (0 .. MaxSparse), f \in 1 .. (MaxSparse + 2) }
    \cup { [ex |-> 0 .. (n - 1), err |-> {}, from |-> 1, to |-> DefaultRangeTo,
            ok |-> TRUE] : n \in 0 .. MaxPages }

AllOptions ==
    [hide : BOOLEAN, destroy : BOOLEAN, ts : BOOLEAN]

FullDocument ==
    HdrBinary \o ProducerOpen \o CreationProp \o ModProp \o ObjEnd
        \o Opacity \o StreamObj \o StreamObj \o PageObj

\* One scenario for each way the run can end after the discovery.
FewRenders ==
    { [status |-> 200, content |-> FullDocument,
       opts |-> [hide |-> TRUE, destroy |-> FALSE, ts |-> TRUE]],
      [status |-> 200, content |-> FullDocument,
       opts |-> [hide |-> FALSE, destroy |-> FALSE, ts |-> FALSE]],
      [status |-> 200,
       content |-> HdrBinary \o ProducerOpen \o ObjEnd \o StreamObjCorrupt \o PageObj,
       opts |-> [hide |-> FALSE, destroy |-> TRUE, ts |-> FALSE]],
      [status |-> 200,
       content |-> HdrBinary \o ProducerOpen \o ObjEnd \o StreamObjNoFilter \o PageObj,
       opts |-> [hide |-> TRUE, destroy |-> FALSE, ts |-> FALSE]],
      [status |-> 200, content |-> HdrUndecodable,
       opts |-> [hide |-> FALSE, destroy |-> FALSE, ts |-> TRUE]],
      [status |-> 500, content |-> <<>>,
       opts |-> [hide |-> TRUE, destroy |-> FALSE, ts |-> TRUE]] }

OneRender ==
    { [status |-> 200, content |-> Opacity \o PageObj,
       opts |-> [hide |-> TRUE, destroy |-> FALSE, ts |-> FALSE]] }

AllRenders ==
    { [status |-> 200, content |-> c, opts |-> o] :
        c \in Documents, o \in AllOptions }

\* Documents with one opacity directive and one pair of streams per page of a
\* two-page request.
TwoPageRenders ==
    { [status |-> 200,
       content |-> a \o b \o Opacity \o StreamObj \o StreamObj
                       \o Opacity \o StreamObj \o StreamObj \o PageObj,
       opts |-> o] :
        a \in Prologues, b \in ProducerObjects, o \in AllOptions }

InitWith(h, r) ==
    /\ exists = h.ex
    /\ error_pages = h.err
    /\ range_from = h.from
    /\ opt_range_to = h.to
    /\ args_ok = h.ok
    /\ render_status = r.status
    /\ render_content = r.content
    /\ user_uuid_hide = r.opts.hide
    /\ user_uuid_destroy = r.opts.destroy
    /\ timestamp_change = r.opts.ts
    /\ InitLocals

\* Many hosts, few documents.
Init ==
    \/ \E h \in ContiguousHosts, r \in OneRender : InitWith(h, r)
    \/ \E h \in SparseHosts, r \in FewRenders : InitWith(h, r)
    \/ \E h \in ScatteredHosts, r \in OneRender : InitWith(h, r)

\* The hosts of the termination check.
InitTermination ==
    \/ \E h \in TerminationHosts, r \in OneRender : InitWith(h, r)
    \/ \E h \in FewHosts, r \in FewRenders : InitWith(h, r)

\* Few hosts, many documents.
InitPdf ==
    \/ \E h \in FewHosts, r \in FewRenders : InitWith(h, r)
    \/ \E r \in AllRenders :
          InitWith([ex |-> 0 .. 2, err |-> {}, from |-> 1, to |-> DefaultRangeTo,
                    ok |-> TRUE], r)
    \/ \E r \in TwoPageRenders :
          InitWith([ex |-> 0 .. 1, err |-> {}, from |-> 1, to |-> DefaultRangeTo,
                    ok |-> TRUE], r)

----------------------------------------------------------------------------
(* main(), quality 'original' *)

bad_page_limit == InitialPageJump

\* Lines 201-267: every check that raises or exits before the first request.
ArgumentsValid ==
    /\ args_ok
    /\ ~ (range_from < 1 \/ range_to < 1)
    /\ ~ (range_from > range_to)

Validate ==
    /\ pc = "validate"
    /\ pc' = IF ArgumentsValid THEN "discover" ELSE "invalid"
    /\ UNCHANGED <<envVars, range_from, range_to, discVars, probes, post_log,
                   pdf_download, locVars, listVars, fileVars, checkVars>>

\* Lines 377-384.
BeginDiscovery ==
    /\ pc = "discover"
    /\ page_num' = range_from - 1
    /\ page_jump' = InitialPageJump
    /\ last_good_page' = -1
    /\ last_bad_page' = NoPage
    /\ bad_page_count' = 0
    /\ pc' = "probe"
    /\ UNCHANGED <<envVars, range_from, range_to, probes, post_log,
                   pdf_download, locVars, listVars, fileVars, checkVars>>

\* Lines 385-413: one iteration of the while loop.
Probe ==
    /\ pc = "probe"
    /\ probes < MaxProbes
    /\ probes' = probes + 1
    /\ LET result == Classify(StatusOf(page_num)) IN
         CASE result = "Exists" ->
                /\ last_good_page' = page_num
                /\ IF BoundaryPinned(page_num, last_bad_page)
                     THEN pc' = "cap" /\ page_num' = page_num
                     ELSE pc' = "probe" /\ page_num' = page_num + page_jump
                /\ UNCHANGED <<page_jump, last_bad_page, bad_page_count>>
           [] result = "Missing" ->
                /\ last_bad_page' = page_num
                /\ bad_page_count' = bad_page_count + 1
                /\ page_jump' = HalveJump(page_jump)
                /\ page_num' = StepBack(page_num, HalveJump(page_jump))
                /\ pc' = IF Exhausted(bad_page_count + 1, bad_page_limit)
                           THEN "exhausted" ELSE "probe"
                /\ UNCHANGED last_good_page
           [] OTHER ->
                /\ pc' = "probe_fatal"
                /\ UNCHANGED discVars
    /\ UNCHANGED <<envVars, range_from, range_to, post_log,
                   pdf_download, locVars, listVars, fileVars, checkVars>>

\* Lines 420-429.
CapToLastPage ==
    /\ pc = "cap"
    /\ last_good_page' = last_good_page + 1
    /\ range_to' = CapRange(last_good_page + 1, range_to)
    /\ pc' = "post"
    /\ UNCHANGED <<envVars, range_from, page_num, page_jump, last_bad_page,
                   bad_page_count, probes, post_log,
                   pdf_download, locVars, listVars, fileVars, checkVars>>

\* Line 453: the number of pages the count checks expect.
ExpectedPages(from, to) == to - from

\* Lines 432-453: build the form fields, post them, keep the body on 200 and
\* work out the number of pages expected.
RenderRequest ==
    /\ pc = "post"
    /\ post_log' = Append(post_log, PagesFields(range_from, range_to))
    /\ IF RenderAccepted(render_status)
         THEN /\ pc' = "locate"
              /\ pdf_download' = render_content
              /\ number_of_pages' = ExpectedPages(range_from, range_to)
         ELSE /\ pc' = "render_failed"
              /\ UNCHANGED <<pdf_download, number_of_pages>>
    /\ UNCHANGED <<envVars, range_from, range_to, discVars, probes,
                   locVars, listVars, fileVars, count_warnings>>

\* Lines 460-500: the MediaBox marker, the iTextSharp object and its two
\* timestamp properties.
LocateAnchors ==
    /\ pc = "locate"
    /\ LET content == Find(pdf_download, MediaBoxMarker, 0, Len(pdf_download))
           producer == Find(pdf_download, ProducerMarker, 0, content)
       IN  /\ start_of_magazine_content_location' = content
           /\ itextsharp_object_location' = producer
           /\ IF producer = -1
                THEN /\ itextsharp_object_end_location' = -1
                     /\ itextsharp_object_creationdate_property_location' = -1
                     /\ itextsharp_object_moddate_property_location' = -1
                ELSE /\ itextsharp_object_end_location' =
                            FindFrom(pdf_download, EndObjMarker, producer)
                     /\ itextsharp_object_creationdate_property_location' =
                            Find(pdf_download, CreationDateTag, producer, content)
                     /\ itextsharp_object_moddate_property_location' =
                            Find(pdf_download, ModDateTag, producer, content)
    /\ pc' = "timestamp"
    /\ UNCHANGED <<envVars, range_from, range_to, discVars, probes, post_log,
                   pdf_download, listVars, fileVars, checkVars>>

\* The byte offsets of the two timestamp values (lines 510, 515, 520, 524).
CreationValueStart ==
    itextsharp_object_creationdate_property_location + CreationDateOffset
ModValueStart ==
    itextsharp_object_moddate_property_location + ModDateOffset

\* Lines 505-526: read the two original values, format the replacements and,
\* with --timestamp-change, write them into the buffer.
RewriteTimestamps ==
    /\ pc = "timestamp"
    /\ IF /\ Decodable(Slice(pdf_download, CreationValueStart,
                             CreationValueStart + timestamp_length))
          /\ Decodable(Slice(pdf_download, ModValueStart,
                             ModValueStart + timestamp_length))
         THEN /\ pc' = "opacity_find"
              /\ IF timestamp_change
                   THEN \E t1 \in Clock, t2 \in Clock :
                          /\ t1.second <= t2.second
                          /\ LET creation == StrfTime(t1)
                                 mod == StrfTime(t2)
                                 first == SliceAssign(pdf_download,
                                              CreationValueStart,
                                              CreationValueStart + Len(creation),
                                              creation)
                             IN  pdf_download' =
                                     SliceAssign(first, ModValueStart,
                                                 ModValueStart + Len(mod), mod)
                   ELSE UNCHANGED pdf_download
         ELSE /\ pc' = "decode_error"
              /\ UNCHANGED pdf_download
    /\ UNCHANGED <<envVars, range_from, range_to, discVars, probes, post_log,
                   locVars, listVars, fileVars, checkVars>>

\* Lines 551-563: every occurrence of the opacity literal before the content.
RECURSIVE OpacityLocations(_, _, _, _)
OpacityLocations(buf, last_found, end, found) ==
    LET latest_location ==
            Find(buf, uuid_opacity_object_original_value, last_found + 1, end)
    IN  IF latest_location = -1 THEN found
        ELSE OpacityLocations(buf, latest_location, end,
                              Append(found, latest_location))

\* Lines 567-585: the first branch takes every unequal count, so the two
\* elif branches never run; the check prints and does nothing else.
OpacityCountWarned(found, expected) == found # expected

\* Lines 551-585.
FindOpacityObjects ==
    /\ pc = "opacity_find"
    /\ LET found == OpacityLocations(pdf_download, -1,
                                     start_of_magazine_content_location, <<>>)
       IN  /\ uuid_opacity_object_location_list' = found
           /\ count_warnings' =
                  IF OpacityCountWarned(Len(found), number_of_pages)
                    THEN count_warnings \cup {"opacity"}
                    ELSE count_warnings
    /\ pc' = "opacity_edit"
    /\ UNCHANGED <<envVars, range_from, range_to, discVars, probes, post_log,
                   pdf_download, locVars, uuid_placement_object_location_list,
                   uuid_text_object_location_list, stream_index, fileVars,
                   number_of_pages>>

\* Lines 598-601: the replacement value exists only with --uuid-hide or
\* --uuid-destroy, and destroy is assigned last.
ReplacementBound == user_uuid_hide \/ user_uuid_destroy

ReplacementValueHideLast ==
    IF user_uuid_hide THEN uuid_opacity_object_hide_value
    ELSE uuid_opacity_object_destroy_value

uuid_opacity_object_replacement_value ==
    IF user_uuid_destroy THEN uuid_opacity_object_destroy_value
    ELSE uuid_opacity_object_hide_value

\* Lines 602-604: every located offset is overwritten.
OverwriteFirst(buf, locations, value) ==
    IF locations = <<>> THEN buf
    ELSE SliceAssign(buf, Head(locations), Head(locations) + Len(value), value)

RECURSIVE OverwriteAll(_, _, _)
OverwriteAll(buf, locations, value) ==
    IF locations = <<>> THEN buf
    ELSE OverwriteAll(SliceAssign(buf, Head(locations),
                                  Head(locations) + Len(value), value),
                      Tail(locations), value)

\* Lines 598-609: the loop body reads the replacement value, which raises
\* NameError when neither option bound it.
EditOpacityObjects ==
    /\ pc = "opacity_edit"
    /\ IF uuid_opacity_object_location_list = <<>>
         THEN pc' = "stream_find" /\ UNCHANGED pdf_download
         ELSE IF ReplacementBound
                THEN /\ pdf_download' =
                          OverwriteAll(pdf_download,
                                       uuid_opacity_object_location_list,
                                       uuid_opacity_object_replacement_value)
                     /\ pc' = "stream_find"
                ELSE pc' = "name_error" /\ UNCHANGED pdf_download
    /\ UNCHANGED <<envVars, range_from, range_to, discVars, probes, post_log,
                   locVars, listVars, fileVars, checkVars>>

\* Lines 615-631: the '<</Length' markers after the iTextSharp object, put
\* alternately on the placement and the text list.  The loop body never runs
\* when the iTextSharp object was not found (latest_location starts at -1).
RECURSIVE StreamLocations(_, _, _, _)
StreamLocations(buf, latest_location, end, lists) ==
    IF latest_location = -1 THEN lists
    ELSE LET next == Find(buf, LengthMarker, latest_location + 1, end)
             number_found == Len(lists.placement) + Len(lists.text)
         IN  IF next = -1 THEN lists
             ELSE IF number_found % 2 = 0
                    THEN StreamLocations(buf, next, end,
                             [lists EXCEPT !.placement = Append(@, next)])
                    ELSE StreamLocations(buf, next, end,
                             [lists EXCEPT !.text = Append(@, next)])

\* Lines 633-646: the stream count check prints and does nothing else.
StreamCountWarned(placement, text, expected) ==
    ~ (/\ placement + text = 2 * expected
       /\ placement = expected
       /\ text = expected)

\* Lines 615-646.
FindStreamObjects ==
    /\ pc = "stream_find"
    /\ LET lists == StreamLocations(pdf_download, itextsharp_object_location,
                                    start_of_magazine_content_location,
                                    [placement |-> <<>>, text |-> <<>>])
       IN  /\ uuid_placement_object_location_list' = lists.placement
           /\ uuid_text_object_location_list' = lists.text
           /\ count_warnings' =
                  IF StreamCountWarned(Len(lists.placement), Len(lists.text),
                                       number_of_pages)
                    THEN count_warnings \cup {"stream"}
                    ELSE count_warnings
    /\ stream_index' = 1
    /\ pc' = "stream_edit"
    /\ UNCHANGED <<envVars, range_from, range_to, discVars, probes, post_log,
                   pdf_download, locVars, uuid_opacity_object_location_list,
                   fileVars, number_of_pages>>

\* Line 654: the list the for loop walks.
StreamObjectList ==
    uuid_placement_object_location_list \o uuid_text_object_location_list

\* Lines 655-663 for the stream object at offset.
LengthText(buf, offset) ==
    Slice(buf, offset + 10, (FindFrom(buf, FilterMarker, offset + 10) - 1) + 1)

StreamStart(buf, offset) == FindFrom(buf, StreamMarker, offset) + 9

StreamContent(buf, offset) ==
    Slice(buf, StreamStart(buf, offset),
          (StreamStart(buf, offset) + IntOf(LengthText(buf, offset)) - 1) + 1)

\* Lines 654-692: one iteration of the for loop.
EditStreamObject ==
    /\ pc = "stream_edit"
    /\ stream_index <= Len(StreamObjectList)
    /\ LET offset == StreamObjectList[stream_index]
           text == LengthText(pdf_download, offset)
       IN  IF ~ Decodable(text)
             THEN pc' = "decode_error" /\ UNCHANGED <<pdf_download, stream_index>>
           ELSE IF ~ IntParses(text)
             THEN pc' = "value_error" /\ UNCHANGED <<pdf_download, stream_index>>
           ELSE IF ~ Decompresses(StreamContent(pdf_download, offset))
             THEN pc' = "zlib_error" /\ UNCHANGED <<pdf_download, stream_index>>
           ELSE /\ pc' = "stream_edit"
                /\ stream_index' = stream_index + 1
                /\ IF user_uuid_destroy
                     THEN LET start == StreamStart(pdf_download, offset)
                              content == StreamContent(pdf_download, offset)
                          IN  pdf_download' =
                                  SliceAssign(pdf_download, start,
                                              start + IntOf(text),
                                              Zeros(Len(content)))
                     ELSE UNCHANGED pdf_download
    /\ UNCHANGED <<envVars, range_from, range_to, discVars, probes, post_log,
                   locVars, uuid_opacity_object_location_list,
                   uuid_placement_object_location_list,
                   uuid_text_object_location_list, fileVars, checkVars>>

\* Lines 697-702: the only place the output file is opened.
WriteFile ==
    /\ pc = "stream_edit"
    /\ stream_index > Len(StreamObjectList)
    /\ file_written' = TRUE
    /\ pdf_original' = pdf_download
    /\ pc' = "done"
    /\ UNCHANGED <<envVars, range_from, range_to, discVars, probes, post_log,
                   pdf_download, locVars, listVars, checkVars>>

Next ==
    \/ Validate
    \/ BeginDiscovery
    \/ Probe
    \/ CapToLastPage
    \/ RenderRequest
    \/ LocateAnchors
    \/ RewriteTimestamps
    \/ FindOpacityObjects
    \/ EditOpacityObjects
    \/ FindStreamObjects
    \/ EditStreamObject
    \/ WriteFile

Spec == Init /\ [][Next]_vars

SpecPdf == InitPdf /\ [][Next]_vars

\* The program is one sequential flow: it keeps taking its next step.
FairSpec == InitTermination /\ [][Next]_vars /\ WF_vars(Next)

TypeOK ==
    /\ pc \in {"validate", "invalid", "discover", "probe", "exhausted",
               "probe_fatal", "cap", "post", "render_failed", "locate",
               "timestamp", "opacity_find", "opacity_edit", "stream_find",
               "stream_edit", "decode_error", "name_error", "value_error",
               "zlib_error", "done"}
    /\ probes \in 0 .. MaxProbes
    /\ file_written \in BOOLEAN

----------------------------------------------------------------------------
(* Properties of the discovery loop, the range and the render request *)

\* Where the program is once line 422 has run.
AfterCap ==
    {"post", "render_failed", "locate", "timestamp", "opacity_find",
     "opacity_edit", "stream_find", "stream_edit", "decode_error",
     "name_error", "value_error", "zlib_error", "done"}

\* Where the program is once the render request has been sent.
AfterPost == AfterCap \ {"post"}

\* Where a run ends without the file: a failed check, an unexpected probe
\* status, no page found, a render response other than 200.
FatalStates == {"invalid", "probe_fatal", "exhausted", "render_failed"}

NumberOfPages == Cardinality(exists)

\* Exactly the pages 0..N-1 exist, N >= 1, every probe answers 200 or 404
\* and the start index lies on an existing page.
ContiguousFromStart ==
    /\ error_pages = {}
    /\ exists # {}
    /\ exists = 0 .. (NumberOfPages - 1)
    /\ range_from - 1 \in exists

\* C1: when exactly the pages 0..N-1 exist and the search starts on one of
\* them, the loop never ends in an error, never runs out of probes, and
\* leaves it with last_good_page = N-1 (N once line 422 made it one-based).
C1_LastPageFound ==
    ContiguousFromStart =>
        /\ pc \notin {"exhausted", "probe_fatal"}
        /\ pc = "probe" => probes < MaxProbes
        /\ pc = "cap" => last_good_page = NumberOfPages - 1
        /\ pc \in AfterCap => last_good_page = NumberOfPages

\* Pages 0..41 exist, discovery started at index 0 has returned 41.
C1_Witness ==
    /\ pc = "cap"
    /\ exists = 0 .. 41
    /\ error_pages = {}
    /\ range_from = 1
    /\ last_good_page = 41
    /\ bad_page_count > 0

\* C2: with a host that answers only 200 or 404, a discovery loop that has
\* started eventually stops, with the boundary pinned
\* (last_good_page + 1 = last_bad_page) or with the exhaustion error.
C2_DiscoveryTerminates ==
    (pc = "probe" /\ error_pages = {})
        ~> \/ pc = "exhausted"
           \/ pc = "cap" /\ last_good_page + 1 = last_bad_page

\* A loop that met existing and missing pages of a non-contiguous magazine
\* has stopped with the boundary pinned.
C2_Witness ==
    /\ pc = "cap"
    /\ error_pages = {}
    /\ exists # 0 .. (NumberOfPages - 1)
    /\ bad_page_count > 1
    /\ last_good_page + 1 = last_bad_page

NoPageExists == exists = {} /\ error_pages = {}

\* C3: when no page exists the run never gets past the discovery, every
\* probe is a Missing, no good page is recorded, and the exhaustion error
\* is raised exactly when the Missing count is bad_page_limit (20).
C3_NoPageExhausts ==
    NoPageExists =>
        /\ pc \in {"validate", "invalid", "discover", "probe", "exhausted"}
        /\ pc \in {"probe", "exhausted"} =>
              /\ last_good_page = -1
              /\ bad_page_count = probes
              /\ (pc = "exhausted") <=> (bad_page_count = 20)

\* No page exists, the search started above index 0 and has failed.
C3_Witness ==
    /\ NoPageExists
    /\ range_from > 1
    /\ pc = "exhausted"
    /\ probes = 20

UnexpectedStatusNext == pc = "probe" /\ StatusOf(page_num) \notin {200, 404}

\* C4: a probe answered with a status other than 200 or 404 ends the run at
\* that probe (nothing of the search state changes, the run is in its fatal
\* state), and from there no step is taken: no probe, no render request, no
\* file.
C4_UnexpectedStatusFatal ==
    /\ [][UnexpectedStatusNext =>
              /\ pc' = "probe_fatal"
              /\ probes' = probes + 1
              /\ UNCHANGED <<discVars, post_log, fileVars>>]_vars
    /\ [][pc = "probe_fatal" => UNCHANGED vars]_vars
    /\ [](pc = "probe_fatal" =>
              /\ StatusOf(page_num) \notin {200, 404}
              /\ post_log = <<>>
              /\ ~ file_written)

\* A run that died on an unexpected status after earlier probes succeeded.
C4_Witness ==
    /\ pc = "probe_fatal"
    /\ probes > 1
    /\ last_good_page >= 0

\* C5: after the discovery, range_to is the smaller of the user's --range-to
\* and the one-based last good page, and range_from never changes.
C5_RangeCapped ==
    /\ [](pc \in AfterCap => range_to = Min2(opt_range_to, last_good_page))
    /\ [](pc \in AfterCap /\ opt_range_to <= last_good_page
              => range_to = opt_range_to)
    /\ [][range_from' = range_from]_vars

\* The user asked for more pages than exist (not by default) and got the
\* last page instead.
C5_Witness ==
    /\ pc = "post"
    /\ opt_range_to # DefaultRangeTo
    /\ range_to < opt_range_to
    /\ range_to = last_good_page

\* C6: the render request carries one field pages[k] for k = 0..count-1,
\* with value range_from - 1 + k, so the values are exactly the indices
\* range_from - 1 .. range_to - 1; no run sends a second request and every
\* run that reaches the render stage has sent exactly one.
C6_PagesFields ==
    /\ Len(post_log) <= 1
    /\ pc \in AfterPost <=> Len(post_log) = 1
    /\ \A r \in 1 .. Len(post_log) :
          LET fields == post_log[r] IN
            /\ DOMAIN fields = 0 .. (range_to - range_from)
            /\ \A k \in DOMAIN fields : fields[k] = range_from - 1 + k
            /\ {fields[k] : k \in DOMAIN fields} = (range_from - 1) .. (range_to - 1)

\* A request for pages 2..4 of a magazine (three fields, first value 1).
C6_Witness ==
    /\ pc = "locate"
    /\ Len(post_log) = 1
    /\ range_from = 2
    /\ DOMAIN post_log[1] = 0 .. 2

UserRangeValid == args_ok /\ range_from >= 1 /\ range_from <= opt_range_to

\* C8: the file exists only in a run whose arguments were valid, whose
\* discovery pinned the boundary, whose render response was 200 and whose
\* edit loops have all finished, and then holds the edited buffer; a run in
\* a fatal state has written nothing and takes no further step.
C8_NoFileOnFatalPath ==
    /\ [](file_written =>
              /\ pc = "done"
              /\ UserRangeValid
              /\ last_bad_page # NoPage /\ last_good_page = last_bad_page
              /\ render_status = 200
              /\ Len(post_log) = 1
              /\ stream_index > Len(StreamObjectList)
              /\ pdf_original = pdf_download)
    /\ [](pc \in FatalStates => ~ file_written)
    /\ [][(pc \in FatalStates) => UNCHANGED vars]_vars
    /\ [][(~ file_written /\ file_written') => (pc = "stream_edit")]_vars

\* A run that wrote its file after editing two stream objects.
C8_Witness ==
    /\ file_written
    /\ pc = "done"
    /\ stream_index = 3
    /\ pdf_original # render_content

----------------------------------------------------------------------------
(* Properties of the edits *)

\* The spans the program located in the render response: the two timestamp
\* values, the opacity objects, the payloads of the stream objects.
InTimestampSpan(o) ==
    \/ /\ itextsharp_object_creationdate_property_location # -1
       /\ o >= CreationValueStart
       /\ o < CreationValueStart + timestamp_length
    \/ /\ itextsharp_object_moddate_property_location # -1
       /\ o >= ModValueStart
       /\ o < ModValueStart + timestamp_length

InOpacitySpan(o) ==
    \E i \in 1 .. Len(uuid_opacity_object_location_list) :
        /\ o >= uuid_opacity_object_location_list[i]
        /\ o < uuid_opacity_object_location_list[i]
                 + Len(uuid_opacity_object_original_value)

InStreamSpan(o) ==
    \E i \in 1 .. Len(StreamObjectList) :
        LET offset == StreamObjectList[i] IN
          /\ IntParses(LengthText(render_content, offset))
          /\ o >= StreamStart(render_content, offset)
          /\ o < StreamStart(render_content, offset)
                   + IntOf(LengthText(render_content, offset))

InLocatedSpan(o) == InTimestampSpan(o) \/ InOpacitySpan(o) \/ InStreamSpan(o)

\* C7: the file written has the length of the render response, and every
\* byte outside the located timestamp, opacity and stream spans is the
\* byte of the render response.
C7_LengthPreserved ==
    file_written =>
        /\ Len(pdf_original) = Len(render_content)
        /\ \A o \in 0 .. (Len(render_content) - 1) :
              ~ InLocatedSpan(o) => pdf_original[o + 1] = render_content[o + 1]

TimestampsDone == pc = "opacity_find"

\* C9: with --timestamp-change and the CreationDate or the ModDate tag not
\* found, the timestamp code has changed no byte on behalf of the missing
\* tag: the buffer keeps its length and differs from the render response
\* only inside the value of a tag that was found.
C9_MissingAnchorSkipped ==
    ( /\ TimestampsDone
      /\ timestamp_change
      /\ \/ itextsharp_object_creationdate_property_location = -1
         \/ itextsharp_object_moddate_property_location = -1 )
    => /\ Len(pdf_download) = Len(render_content)
       /\ \A o \in 0 .. (Len(render_content) - 1) :
             pdf_download[o + 1] # render_content[o + 1] => InTimestampSpan(o)

BothTagsFound ==
    /\ itextsharp_object_creationdate_property_location # -1
    /\ itextsharp_object_moddate_property_location # -1

\* C10: without --timestamp-change the two 14-byte values are the ones of
\* the render response; with it and both tags found, the 14 bytes 15 after
\* the CreationDate tag and the 14 bytes 10 after the ModDate tag are 14
\* ASCII digits each and no other byte of the buffer has changed.
C10_TimestampGated ==
    (TimestampsDone /\ BothTagsFound) =>
        IF timestamp_change
          THEN /\ Len(pdf_download) = Len(render_content)
               /\ LET creation == Slice(pdf_download, CreationValueStart,
                                        CreationValueStart + timestamp_length)
                      mod == Slice(pdf_download, ModValueStart,
                                   ModValueStart + timestamp_length)
                  IN  /\ Len(creation) = timestamp_length /\ AllDigits(creation)
                      /\ Len(mod) = timestamp_length /\ AllDigits(mod)
               /\ \A o \in 0 .. (Len(render_content) - 1) :
                     ~ InTimestampSpan(o)
                         => pdf_download[o + 1] = render_content[o + 1]
          ELSE /\ Slice(pdf_download, CreationValueStart,
                        CreationValueStart + timestamp_length)
                    = Slice(render_content, CreationValueStart,
                            CreationValueStart + timestamp_length)
               /\ Slice(pdf_download, ModValueStart,
                        ModValueStart + timestamp_length)
                    = Slice(render_content, ModValueStart,
                            ModValueStart + timestamp_length)

----------------------------------------------------------------------------
(* Properties of the opacity and stream edits *)

\* The offsets at which lit stands in buf.
Occurrences(buf, lit) ==
    { o \in 0 .. (Len(buf) - Len(lit)) : Slice(buf, o, o + Len(lit)) = lit }

\* The end of the range lines 554-555 search: the content boundary, or the
\* last byte of the buffer when the boundary is -1.
OpacitySearchEnd(buf) ==
    NormIndex(start_of_magazine_content_location, Len(buf))

HideOnly == user_uuid_hide /\ ~ user_uuid_destroy

OutputBuffer == IF file_written THEN pdf_original ELSE pdf_download

\* The stream objects the loop of line 654 has dealt with.
StreamsEdited == 1 .. Min2(stream_index - 1, Len(StreamObjectList))

\* C12: for every located stream the loop has dealt with, the '<</Length'
\* marker and the digits of n are those of the render response; with
\* --uuid-destroy each of the n bytes after '>>stream\n' is an ASCII '0' and
\* the buffer keeps its length; without it each of them is the byte of the
\* render response.
C12_StreamsDestroyed ==
    \A i \in StreamsEdited :
        LET offset == StreamObjectList[i]
            n == IntOf(LengthText(render_content, offset))
            start == StreamStart(render_content, offset)
        IN  /\ Slice(render_content, offset, offset + Len(LengthMarker))
                 = LengthMarker
            /\ Slice(OutputBuffer, offset, offset + Len(LengthMarker))
                 = LengthMarker
            /\ IntParses(LengthText(render_content, offset))
            /\ LengthText(OutputBuffer, offset)
                 = LengthText(render_content, offset)
            /\ StreamStart(OutputBuffer, offset) = start
            /\ Len(OutputBuffer) = Len(render_content)
            /\ start + n <= Len(OutputBuffer)
            /\ \A o \in start .. (start + n - 1) :
                  OutputBuffer[o + 1] =
                      IF user_uuid_destroy THEN 48 ELSE render_content[o + 1]

\* Four streams were zeroed and the file was written.
C12_Witness ==
    /\ file_written /\ user_uuid_destroy
    /\ Len(StreamObjectList) = 4
    /\ stream_index = 5
    /\ \E o \in 0 .. (Len(render_content) - 1) :
          /\ InStreamSpan(o)
          /\ pdf_original[o + 1] = 48
          /\ render_content[o + 1] # 48

BothRequested == user_uuid_hide /\ user_uuid_destroy

\* The opacity edit of lines 598-604 has run.
OpacityEdited ==
    pc \in {"stream_find", "stream_edit", "value_error", "zlib_error", "done"}

\* With --uuid-hide and --uuid-destroy both given, once the opacity edit has
\* run every located opacity directive holds the all-'0' literal and none
\* holds the hidden literal, in the buffer and in the file written.
ZerosAtEveryDirective ==
    (BothRequested /\ OpacityEdited) =>
        \A i \in 1 .. Len(uuid_opacity_object_location_list) :
            LET at == uuid_opacity_object_location_list[i] IN
              /\ Slice(OutputBuffer, at,
                       at + Len(uuid_opacity_object_destroy_value))
                   = uuid_opacity_object_destroy_value
              /\ Slice(OutputBuffer, at,
                       at + Len(uuid_opacity_object_hide_value))
                   # uuid_opacity_object_hide_value

\* With --uuid-destroy the opacity edit is the one step that writes the
\* all-'0' literal at every located offset, whether --uuid-hide is given or
\* not.
DestroyStepIgnoresHide ==
    (pc = "opacity_edit" /\ user_uuid_destroy)
        => /\ pdf_download' =
                 OverwriteAll(pdf_download, uuid_opacity_object_location_list,
                              uuid_opacity_object_destroy_value)
           /\ pc' = "stream_find"

\* C13: with --uuid-hide and --uuid-destroy both given every located opacity
\* directive is overwritten with the all-'0' literal, never with the hidden
\* one, and the edit is the edit --uuid-destroy makes alone.
C13_DestroyOverridesHide ==
    [] ZerosAtEveryDirective /\ [][DestroyStepIgnoresHide]_vars

\* Both options given, two directives overwritten with zeros, file written.
C13_Witness ==
    /\ file_written /\ BothRequested
    /\ Len(uuid_opacity_object_location_list) = 2
    /\ \A i \in 1 .. 2 :
          Slice(pdf_original, uuid_opacity_object_location_list[i],
                uuid_opacity_object_location_list[i] + 19)
              = uuid_opacity_object_destroy_value

\* The run has stopped on an exception raised after the counts were taken.
AbortedAfterCounting ==
    \/ pc \in {"name_error", "value_error", "zlib_error"}
    \/ pc = "decode_error" /\ stream_index > 0

\* C14: after a 200 render response, whatever the number of opacity
\* directives and Length markers located, the run does not abort once they
\* are counted: it goes on to write the file.
C14_MismatchNotFatal == ~ AbortedAfterCounting

----------------------------------------------------------------------------
(* Further properties of the discovery loop *)

\* C15: with a start page of at least 1, the index the loop is about to
\* probe, and so every index it has probed, is at least 0.
C15_NoNegativeProbe ==
    (range_from >= 1 /\ pc \in {"probe", "exhausted", "probe_fatal", "cap"})
        => page_num >= 0

\* A step back that would have gone below 0 has been clamped and index 0 is
\* about to be probed.
C15_Witness ==
    /\ pc = "probe"
    /\ range_from >= 1
    /\ page_num = 0
    /\ last_bad_page # NoPage
    /\ last_bad_page - page_jump < 0

\* C16: whatever pages exist and wherever the search starts, a run that
\* ends in the exhaustion error has recorded no good page.
C16_ExhaustedNoGood == (pc = "exhausted") => (last_good_page = -1)

\* Pages exist, above and below the start, and the search has still failed
\* without ever landing on one.
C16_Witness ==
    /\ pc = "exhausted"
    /\ last_good_page = -1
    /\ bad_page_count = 20
    /\ \E p \in exists : p > range_from - 1
    /\ \E p \in exists : p < range_from - 1

----------------------------------------------------------------------------
(* Properties of the anchors and of the options *)

\* C17: when the content boundary was found, every byte of the render
\* response at or after it is the byte at the same offset of the file
\* written, whatever the options.
C17_ContentUntouched ==
    (file_written /\ start_of_magazine_content_location # -1) =>
        \A o \in start_of_magazine_content_location
                    .. (Len(render_content) - 1) :
            /\ o < Len(pdf_original)
            /\ pdf_original[o + 1] = render_content[o + 1]

\* Lines 460-500 have run.
AnchorsLocated ==
    pc \in {"timestamp", "opacity_find", "opacity_edit", "stream_find",
            "stream_edit", "decode_error", "name_error", "value_error",
            "zlib_error", "done"}

\* The tag found at location lies inside the producer object: at or after
\* its marker and before its 'endobj'.
InsideProducerObject(location, tag) ==
    /\ location >= itextsharp_object_location
    /\ itextsharp_object_end_location # -1
          => location + Len(tag) <= itextsharp_object_end_location

\* C18: a timestamp tag that was located lies inside the producer object's
\* span; a tag standing after the object's 'endobj' is never taken.
C18_TagsInsideProducerObject ==
    AnchorsLocated =>
        /\ itextsharp_object_creationdate_property_location # -1
              => InsideProducerObject(
                     itextsharp_object_creationdate_property_location,
                     CreationDateTag)
        /\ itextsharp_object_moddate_property_location # -1
              => InsideProducerObject(
                     itextsharp_object_moddate_property_location, ModDateTag)

NeitherRequested == ~ user_uuid_hide /\ ~ user_uuid_destroy

\* C19: with neither --uuid-hide nor --uuid-destroy the run does not stop
\* in the opacity edit, and the file written holds the original opacity
\* literal at every located offset.
C19_NoOptionStillWritten ==
    NeitherRequested =>
        /\ pc # "name_error"
        /\ file_written =>
              \A i \in 1 .. Len(uuid_opacity_object_location_list) :
                  Slice(pdf_original, uuid_opacity_object_location_list[i],
                        uuid_opacity_object_location_list[i]
                            + Len(uuid_opacity_object_original_value))
                      = uuid_opacity_object_original_value

\* The render request was answered with 200 and line 453 has run.
RenderReceived == pc \in AfterPost \ {"render_failed"}

\* The number of pages[..] fields of the render request.
PagesRequested == Cardinality(DOMAIN post_log[1])

\* Both count checks have run.
CountsChecked ==
    pc \in {"stream_edit", "value_error", "zlib_error", "done"}

\* C20: the number of pages the counts are compared with is the number of
\* page indices sent in the render request, so a response with exactly one
\* opacity directive, one placement stream and one text stream per page
\* requested gets no count warning.
C20_ExpectedIsRequested ==
    /\ RenderReceived => number_of_pages = PagesRequested
    /\ ( /\ CountsChecked
         /\ Len(uuid_opacity_object_location_list) = PagesRequested
         /\ Len(uuid_placement_object_location_list) = PagesRequested
         /\ Len(uuid_text_object_location_list) = PagesRequested )
       => count_warnings = {}

----------------------------------------------------------------------------
(* The resolved range *)

\* The page indices carried by the render request.
IndicesRequested == { post_log[1][k] : k \in DOMAIN post_log[1] }

\* C21: once the range is capped, range_from <= range_to; the render request
\* then carries at least one page index and every index it carries is a
\* page that exists.
C21_RangeNotEmpty ==
    /\ pc \in AfterCap => range_from <= range_to
    /\ pc \in AfterPost =>
          /\ IndicesRequested # {}
          /\ IndicesRequested \subseteq exists

====
